---- MODULE Spec2Model ----
(***************************************************************************)
(* CoreLibNative_CreateGuid (System.Private.CoreLib.Native/pal_guid.cpp).  *)
(*                                                                         *)
(* Memory is one flat byte-addressed space.  Every thread owns a 16-byte   *)
(* GUID buffer in it, with Guard bytes of foreign memory before, between   *)
(* and after the buffers.  A call runs line 23 (the random-UUID source     *)
(* fills 16 bytes), then lines 27, 28 and 29 (each loads a struct field in *)
(* host byte order, swaps it, and stores it back in host byte order).      *)
(*                                                                         *)
(* A uint16_t is a number in 0..65535.  A uint32_t is the pair <<hi, lo>>  *)
(* of its 16-bit halves, so that no 32-bit value leaves the checker's      *)
(* integer range.                                                          *)
(***************************************************************************)
EXTENDS Integers, Sequences, FiniteSets, TLC

\* ------------------------------------------------------------- bounds
NumThreads == 2
NumVariants == 1
Guard == 2

\* ---------------------------------------------------- struct _GUID layout
SizeofGUID == 16
OffData1 == 0
OffData2 == 4
OffData3 == 6
OffData4 == 8

Byte == 0..255
Threads == 1..NumThreads
MemSize == Guard + NumThreads * (SizeofGUID + Guard)
Addrs == 0..(MemSize - 1)

\* The caller's buffer of thread t (the pGuid argument).
pGuid(t) == Guard + (t - 1) * (SizeofGUID + Guard)

Span(a, n) == a..(a + n - 1)
BufRange(t) == Span(pGuid(t), SizeofGUID)
GuardAddrs == Addrs \ UNION {BufRange(t) : t \in Threads}

\* ------------------------------------------- values of the random source
Example == <<1, 2, 3, 4, 5, 6, 7, 8, 9, 10, 11, 12, 13, 14, 15, 16>>
V4Uuid == <<248, 29, 79, 174, 125, 236, 65, 208, 167, 101, 0, 160, 201, 30, 107, 246>>
Zeros == [i \in 1..16 |-> 0]
\* Example with one byte replaced: variant 0 differs from Example in byte 6 only.
Variant(j) == [Example EXCEPT ![((6 + 5 * j) % 16) + 1] = (79 + 49 * j) % 256]
SourceValues == {Example, V4Uuid, Zeros} \cup {Variant(j) : j \in 0..(NumVariants - 1)}

\* What thread t's buffer holds before its first call: callers hand in
\* buffers of different contents (zeroed, or stale stack bytes).
PriorByte(t) == IF t % 2 = 1 THEN 0 ELSE 204

\* Memory before any call: the buffers, and foreign bytes around them.
InitMem ==
    [a \in Addrs |->
        IF a \in GuardAddrs THEN 238
        ELSE PriorByte(CHOOSE t \in Threads : a \in BufRange(t))]

VARIABLES mem, pc, src, srcCalls, rd, wr, reused, bigEndian

vars == <<mem, pc, src, srcCalls, rd, wr, reused, bigEndian>>

\* --------------------------------------------------- memory primitives
\* bs stored at addresses a, a+1, ...
Write(m, a, bs) ==
    [x \in DOMAIN m |-> IF x >= a /\ x < a + Len(bs) THEN bs[x - a + 1] ELSE m[x]]

\* A slip: the field read byte by byte, low byte first, whatever the host.
Load16LittleOnly(m, a, be) == m[a] + 256 * m[a + 1]

\* A uint16_t field at address a, read in host byte order.
Load16(m, a, be) ==
    IF be THEN m[a] * 256 + m[a + 1] ELSE m[a] + 256 * m[a + 1]

\* A uint32_t field at address a, read in host byte order, as <<hi, lo>>.
Load32(m, a, be) ==
    IF be THEN <<Load16(m, a, be), Load16(m, a + 2, be)>>
          ELSE <<Load16(m, a + 2, be), Load16(m, a, be)>>

\* The bytes a uint16_t store writes, in host byte order.
Bytes16(v, be) ==
    IF be THEN <<v \div 256, v % 256>> ELSE <<v % 256, v \div 256>>

\* A slip: the 32-bit store written low byte first, whatever the host.
Bytes32LittleOnly(v, be) == Bytes16(v[2], FALSE) \o Bytes16(v[1], FALSE)

\* The bytes a uint32_t store writes, in host byte order.
Bytes32(v, be) ==
    IF be THEN Bytes16(v[1], be) \o Bytes16(v[2], be)
          ELSE Bytes16(v[2], be) \o Bytes16(v[1], be)

\* pal_endian.h: (x >> 8) | (x << 8) on a uint16_t.
SWAP16(x) == ((x \div 256) + (x * 256)) % 65536

\* pal_endian.h: the four bytes of a uint32_t reversed; on <<hi, lo>> the
\* halves change places and each is byte-swapped.
SWAP32(x) == <<SWAP16(x[2]), SWAP16(x[1])>>

\* ------------------------------------------ the statements of the function
\* Each statement is the set of addresses it reads and the one store it makes.

\* A slip: the UUID generated into one static buffer (here where thread 1's
\* buffer lies) instead of the caller's.
Stmt23Static(m, p, s) == [rd |-> {}, addr |-> pGuid(1), bytes |-> s]

\* A slip: a source that writes a terminating zero after the 16 bytes.
Stmt23Terminated(m, p, s) == [rd |-> {}, addr |-> p, bytes |-> Append(s, 0)]

\* A slip: sizeof(pGuid), a pointer's 8 bytes, filled instead of sizeof(GUID).
Stmt23PointerSized(m, p, s) == [rd |-> {}, addr |-> p, bytes |-> SubSeq(s, 1, 8)]

\* line 23: uuid_generate_random(*(uuid_t*)pGuid), the source producing s.
Stmt23(m, p, s) == [rd |-> {}, addr |-> p, bytes |-> s]

\* A slip: SWAP16 used on Data1; its uint16_t result, widened, is stored.
Stmt27Swap16(m, p, be) ==
    [rd |-> Span(p + OffData1, 4), addr |-> p + OffData1,
     bytes |-> Bytes32(<<0, SWAP16(Load32(m, p + OffData1, be)[2])>>, be)]

\* line 27: pGuid->Data1 = SWAP32(pGuid->Data1)
Stmt27(m, p, be) ==
    [rd |-> Span(p + OffData1, 4), addr |-> p + OffData1,
     bytes |-> Bytes32(SWAP32(Load32(m, p + OffData1, be)), be)]

\* A slip: line 28 written for Data3, so that Data2 is never swapped.
Stmt28OnData3(m, p, be) ==
    [rd |-> Span(p + OffData3, 2), addr |-> p + OffData3,
     bytes |-> Bytes16(SWAP16(Load16(m, p + OffData3, be)), be)]

\* line 28: pGuid->Data2 = SWAP16(pGuid->Data2)
Stmt28(m, p, be) ==
    [rd |-> Span(p + OffData2, 2), addr |-> p + OffData2,
     bytes |-> Bytes16(SWAP16(Load16(m, p + OffData2, be)), be)]

\* A slip: line 29 written for the first two bytes of Data4.
Stmt29OnData4(m, p, be) ==
    [rd |-> Span(p + OffData4, 2), addr |-> p + OffData4,
     bytes |-> Bytes16(SWAP16(Load16(m, p + OffData4, be)), be)]

\* A slip: line 29 copied from line 28 with only its target renamed.
Stmt29FromData2(m, p, be) ==
    [rd |-> Span(p + OffData2, 2), addr |-> p + OffData3,
     bytes |-> Bytes16(SWAP16(Load16(m, p + OffData2, be)), be)]

\* line 29: pGuid->Data3 = SWAP16(pGuid->Data3)
Stmt29(m, p, be) ==
    [rd |-> Span(p + OffData3, 2), addr |-> p + OffData3,
     bytes |-> Bytes16(SWAP16(Load16(m, p + OffData3, be)), be)]

\* Memory after a statement's store.
After(m, st) == Write(m, st.addr, st.bytes)

\* Lines 27..29 in program order on memory m.
FixUp(m, p, be) ==
    LET m1 == After(m, Stmt27(m, p, be))
        m2 == After(m1, Stmt28(m1, p, be))
    IN  After(m2, Stmt29(m2, p, be))

\* The whole body, lines 23..29, on memory m with the source producing s.
Body(m, p, s, be) == FixUp(After(m, Stmt23(m, p, s)), p, be)

\* The 16 bytes at p.
Bytes(m, p) == [i \in 1..SizeofGUID |-> m[p + i - 1]]
Buf(t) == Bytes(mem, pGuid(t))

\* ---------------------------------------------------------------- Init
Init ==
    /\ bigEndian \in BOOLEAN
    /\ mem = InitMem
    /\ pc = [t \in Threads |-> "idle"]
    /\ src = [t \in Threads |-> <<>>]
    /\ srcCalls = [t \in Threads |-> 0]
    /\ rd = [t \in Threads |-> {}]
    /\ wr = [t \in Threads |-> {}]
    /\ reused = [t \in Threads |-> FALSE]

\* ------------------------------------------------------------- actions
\* One statement of thread t: its reads, its store, and the next line.
Exec(t, stmt, next) ==
    \E st \in {stmt} :
        /\ mem' = After(mem, st)
        /\ rd' = [rd EXCEPT ![t] = @ \cup st.rd]
        /\ wr' = [wr EXCEPT ![t] = @ \cup Span(st.addr, Len(st.bytes))]
        /\ pc' = [pc EXCEPT ![t] = next]

\* line 20: a caller enters CoreLibNative_CreateGuid with its own buffer.
Call(t) ==
    /\ pc[t] = "idle"
    /\ pc' = [pc EXCEPT ![t] = "l23"]
    /\ reused' = [reused EXCEPT ![t] = (src[t] # <<>>)]
    /\ src' = [src EXCEPT ![t] = <<>>]
    /\ srcCalls' = [srcCalls EXCEPT ![t] = 0]
    /\ rd' = [rd EXCEPT ![t] = {}]
    /\ wr' = [wr EXCEPT ![t] = {}]
    /\ UNCHANGED <<mem, bigEndian>>

\* A slip: a source that can fail, and a function that then returns early
\* with the buffer as it was.
GenerateRandomMayFail(t) ==
    /\ pc[t] = "l23"
    /\ \E s \in SourceValues :
         /\ \/ Exec(t, Stmt23(mem, pGuid(t), s), "l27")
            \/ /\ pc' = [pc EXCEPT ![t] = "ret"]
               /\ UNCHANGED <<mem, rd, wr>>
         /\ src' = [src EXCEPT ![t] = s]
    /\ srcCalls' = [srcCalls EXCEPT ![t] = @ + 1]
    /\ UNCHANGED <<reused, bigEndian>>

\* line 23: the random-UUID source fills the buffer with some value s.
GenerateRandom(t) ==
    /\ pc[t] = "l23"
    /\ \E s \in SourceValues :
         /\ Exec(t, Stmt23(mem, pGuid(t), s), "l27")
         /\ src' = [src EXCEPT ![t] = s]
    /\ srcCalls' = [srcCalls EXCEPT ![t] = @ + 1]
    /\ UNCHANGED <<reused, bigEndian>>

\* line 27
SwapData1(t) ==
    /\ pc[t] = "l27"
    /\ Exec(t, Stmt27(mem, pGuid(t), bigEndian), "l28")
    /\ UNCHANGED <<src, srcCalls, reused, bigEndian>>

\* line 28
SwapData2(t) ==
    /\ pc[t] = "l28"
    /\ Exec(t, Stmt28(mem, pGuid(t), bigEndian), "l29")
    /\ UNCHANGED <<src, srcCalls, reused, bigEndian>>

\* line 29
SwapData3(t) ==
    /\ pc[t] = "l29"
    /\ Exec(t, Stmt29(mem, pGuid(t), bigEndian), "ret")
    /\ UNCHANGED <<src, srcCalls, reused, bigEndian>>

\* line 33: the function returns to its caller.
Return(t) ==
    /\ pc[t] = "ret"
    /\ pc' = [pc EXCEPT ![t] = "idle"]
    /\ UNCHANGED <<mem, src, srcCalls, rd, wr, reused, bigEndian>>

\* The steps of the function's own code (everything but the caller's Call).
Step(t) ==
    \/ GenerateRandom(t)
    \/ SwapData1(t)
    \/ SwapData2(t)
    \/ SwapData3(t)
    \/ Return(t)

Next ==
    \E t \in Threads :
        \/ Call(t)
        \/ GenerateRandom(t)
        \/ SwapData1(t)
        \/ SwapData2(t)
        \/ SwapData3(t)
        \/ Return(t)

Spec == Init /\ [][Next]_vars

\* The body is straight-line code: a thread inside a call keeps running.
FairSpec == Spec /\ \A t \in Threads : WF_vars(Step(t))

TypeOK ==
    /\ mem \in [Addrs -> Byte]
    /\ pc \in [Threads -> {"idle", "l23", "l27", "l28", "l29", "ret"}]
    /\ \A t \in Threads : src[t] \in SourceValues \cup {<<>>}
    /\ srcCalls \in [Threads -> 0..1]
    /\ \A t \in Threads : rd[t] \subseteq Addrs /\ wr[t] \subseteq Addrs
    /\ reused \in [Threads -> BOOLEAN]
    /\ bigEndian \in BOOLEAN

\* ------------------------------------------------------------ the claims
\* Byte i (counted from 0) of a 16-byte value.
B(q, i) == q[i + 1]

\* Thread t's call has run to its end: the buffer is what the call left.
Returned(t) == pc[t] = "ret" \/ (pc[t] = "idle" /\ src[t] # <<>>)

\* s with bytes 0..3, 4..5 and 6..7 each reversed and bytes 8..15 kept.
Reordered(s) ==
    <<s[4], s[3], s[2], s[1], s[6], s[5], s[8], s[7],
      s[9], s[10], s[11], s[12], s[13], s[14], s[15], s[16]>>

ExampleOut == <<4, 3, 2, 1, 6, 5, 8, 7, 9, 10, 11, 12, 13, 14, 15, 16>>

\* A 16-byte value as a memory of its own, at address 0.
AsMem(q) == [a \in 0..(SizeofGUID - 1) |-> q[a + 1]]

\* C1: after a call returns, the buffer holds the source value s with
\* out[0..3] = s[3],s[2],s[1],s[0], out[4..5] = s[5],s[4], out[6..7] =
\* s[7],s[6] and out[8..15] = s[8..15]; the source value 01 02 .. 10 gives
\* 04 03 02 01 06 05 08 07 09 .. 10.
C1_Layout ==
    \A t \in Threads :
        Returned(t) =>
            /\ Buf(t) = Reordered(src[t])
            /\ (src[t] = Example => Buf(t) = ExampleOut)

C1_Witness ==
    \E t \in Threads : pc[t] = "ret" /\ src[t] = Example /\ Buf(t) = ExampleOut

\* C2: after a call returns, the buffer read with the little-endian field
\* layout gives the same Data1, Data2 and Data3 as the big-endian reading of
\* time_low, time_mid and time_hi_and_version of the source value; the
\* version nibble of s is the top 4 bits of Data3 and the variant bits stay
\* in out[8].  (A 32-bit value is compared as its two 16-bit halves.)
C2_ValuePreserved ==
    \A t \in Threads :
        Returned(t) =>
            LET out == Buf(t)
                s == src[t]
                Data1Hi == B(out, 2) + 256 * B(out, 3)
                Data1Lo == B(out, 0) + 256 * B(out, 1)
                Data2 == B(out, 4) + 256 * B(out, 5)
                Data3 == B(out, 6) + 256 * B(out, 7)
            IN  /\ Data1Hi = B(s, 0) * 256 + B(s, 1)
                /\ Data1Lo = B(s, 2) * 256 + B(s, 3)
                /\ Data2 = B(s, 4) * 256 + B(s, 5)
                /\ Data3 = B(s, 6) * 256 + B(s, 7)
                /\ Data3 \div 4096 = B(s, 6) \div 16
                /\ B(out, 8) \div 64 = B(s, 8) \div 64

C2_Witness ==
    \E t \in Threads :
        /\ pc[t] = "ret" /\ src[t] = V4Uuid
        /\ (B(Buf(t), 6) + 256 * B(Buf(t), 7)) \div 4096 = 4
        /\ B(Buf(t), 8) \div 64 = 2

\* C3: every step of a call after the source has filled the buffer (lines
\* 27, 28 and 29) leaves bytes 8..15 of the buffer unchanged.
C3_Data4Untouched ==
    [][\A t \in Threads :
          (pc[t] \in {"l27", "l28", "l29"} /\ pc'[t] # pc[t]) =>
              \A i \in OffData4..(SizeofGUID - 1) :
                  mem'[pGuid(t) + i] = mem[pGuid(t) + i]]_vars

C3_Witness ==
    \E t \in Threads :
        /\ pc[t] = "ret" /\ src[t] = V4Uuid
        /\ \A i \in OffData4..(SizeofGUID - 1) : B(Buf(t), i) = B(V4Uuid, i)
        /\ Buf(t) # V4Uuid

\* C4: the fix-up of lines 27..29 is an involution: applied to the buffer a
\* call left it gives back the source value, and applied twice to a source
\* value it gives back that value.
C4_Involution ==
    \A t \in Threads :
        Returned(t) =>
            /\ Bytes(FixUp(AsMem(Buf(t)), 0, bigEndian), 0) = src[t]
            /\ Bytes(FixUp(FixUp(AsMem(src[t]), 0, bigEndian), 0, bigEndian), 0)
                 = src[t]

C4_Witness ==
    \E t \in Threads :
        /\ pc[t] = "ret" /\ src[t] = V4Uuid /\ Buf(t) # src[t]
        /\ Bytes(FixUp(AsMem(Buf(t)), 0, bigEndian), 0) = V4Uuid

\* C5: the bytes a call leaves do not depend on the host's byte order: they
\* are the bytes the same body leaves on a host of the other byte order (and
\* of this one), namely the source value with its first three fields
\* byte-reversed.
C5_HostIndependent ==
    \A t \in Threads :
        Returned(t) =>
            /\ Buf(t) = Bytes(Body(AsMem(Zeros), 0, src[t], ~bigEndian), 0)
            /\ Buf(t) = Bytes(Body(AsMem(Zeros), 0, src[t], bigEndian), 0)
            /\ Buf(t) = Reordered(src[t])

C5_Witness ==
    \E t \in Threads :
        /\ bigEndian /\ pc[t] = "ret" /\ src[t] = Example
        /\ Buf(t) = Bytes(Body(AsMem(Zeros), 0, Example, FALSE), 0)
        /\ Buf(t) # Example

\* The memory of a call that runs alone on a buffer of its own, when it
\* stands at line `at` with the source having produced s.
Alone(s, at, be) ==
    LET m0 == After(AsMem(Zeros), Stmt23(AsMem(Zeros), 0, s))
        m1 == After(m0, Stmt27(m0, 0, be))
        m2 == After(m1, Stmt28(m1, 0, be))
        m3 == After(m2, Stmt29(m2, 0, be))
    IN  CASE at = "l27" -> m0
          [] at = "l28" -> m1
          [] at = "l29" -> m2
          [] OTHER -> m3

\* C6: calls of several threads, each on its own buffer, do not interfere:
\* under every interleaving each thread's buffer is, at every line after the
\* fill and after the return, what the call running alone would hold for the
\* value the source gave that thread; no call reads or writes another
\* thread's buffer, and a buffer not yet passed to a call keeps its contents.
C6_NoInterference ==
    \A t \in Threads :
        /\ (pc[t] \in {"l27", "l28", "l29", "ret"} \/ Returned(t)) =>
               Buf(t) = Bytes(Alone(src[t], pc[t], bigEndian), 0)
        /\ (pc[t] \in {"idle", "l23"} /\ src[t] = <<>> /\ ~reused[t]) =>
               Buf(t) = Bytes(InitMem, pGuid(t))
        /\ \A u \in Threads \ {t} : (rd[t] \cup wr[t]) \cap BufRange(u) = {}

C6_Witness ==
    \E t, u \in Threads :
        /\ t # u /\ pc[t] = "ret" /\ pc[u] = "l28"
        /\ src[t] = Example /\ src[u] = V4Uuid
        /\ Buf(t) = ExampleOut

\* C7: every write of a call (the 16-byte fill, the 4-byte Data1 store, the
\* 2-byte Data2 and Data3 stores) lands at offsets 0..15 of the caller's
\* buffer, a finished call has written exactly those 16 bytes, and the
\* memory around the buffers is as it was before any call.
C7_WritesInBuffer ==
    /\ \A t \in Threads :
         /\ wr[t] \subseteq BufRange(t)
         /\ rd[t] \subseteq BufRange(t)
         /\ pc[t] = "ret" => wr[t] = BufRange(t)
    /\ \A a \in GuardAddrs : mem[a] = InitMem[a]

C7_Witness ==
    \E t \in Threads :
        /\ pc[t] = "ret" /\ wr[t] = BufRange(t) /\ Buf(t) # Bytes(InitMem, pGuid(t))
        /\ \A a \in GuardAddrs : mem[a] = InitMem[a]

\* The state part of C8: the source is invoked exactly once and before any
\* byte swap, and a returning call holds the reordered source value.
C8_Safe ==
    \A t \in Threads :
        /\ pc[t] = "l23" => srcCalls[t] = 0 /\ wr[t] = {} /\ rd[t] = {}
        /\ pc[t] \in {"l27", "l28", "l29", "ret"} =>
               srcCalls[t] = 1 /\ src[t] \in SourceValues
        /\ pc[t] = "l27" => rd[t] = {} /\ Buf(t) = src[t]
        /\ pc[t] = "ret" =>
               /\ Buf(t) = Reordered(src[t])
               /\ (src[t] # Zeros => Buf(t) # Zeros)

\* C8: a call has no error path: it invokes the source exactly once, before
\* any byte swap; when it returns the buffer holds the reordered source value
\* (never zeros for a non-zero source value); and a call that has started
\* reaches its return.
C8_AlwaysSucceeds ==
    /\ []C8_Safe
    /\ \A t \in Threads : (pc[t] = "l23") ~> (pc[t] = "ret")

C8_Witness ==
    \E t \in Threads :
        /\ pc[t] = "ret" /\ srcCalls[t] = 1 /\ src[t] = V4Uuid
        /\ Buf(t) = Reordered(V4Uuid) /\ Buf(t) # Zeros

\* C9: the reordering is injective: two calls leave equal buffers only if
\* the source gave them equal values.
C9_Injective ==
    \A t, u \in Threads :
        (Returned(t) /\ Returned(u) /\ Buf(t) = Buf(u)) => src[t] = src[u]

\* Two source values that differ in one byte only give different buffers.
C9_Witness ==
    \E t, u \in Threads :
        /\ pc[t] = "ret" /\ pc[u] = "ret"
        /\ src[t] = Example /\ src[u] = Variant(0)
        /\ Buf(t) # Buf(u)

\* C10: what a call leaves depends only on the value the source produced in
\* it: two finished calls with equal source values hold equal buffers
\* whatever the buffers held before (a caller's stale bytes, or an earlier
\* call's GUID), and the call has overwritten every byte of the buffer.
C10_OnlySource ==
    \A t, u \in Threads :
        /\ (Returned(t) /\ Returned(u) /\ src[t] = src[u]) => Buf(t) = Buf(u)
        /\ pc[t] \in {"l27", "l28", "l29", "ret"} => BufRange(t) \subseteq wr[t]

\* One buffer reused after an earlier call, the other fresh with other bytes.
C10_Witness ==
    \E t, u \in Threads :
        /\ pc[t] = "ret" /\ pc[u] = "ret" /\ src[t] = src[u]
        /\ reused[t] /\ ~reused[u]
        /\ InitMem[pGuid(t)] # InitMem[pGuid(u)]
        /\ Buf(t) = Buf(u)

====
